---- MODULE Spec2Model ----
(***************************************************************************)
(* A model of fbdraw (src/src/lib.rs): Color::rgb, Surface::new,           *)
(* Surface::size, Surface::put_pixel and the draw loop Surface::begin_draw *)
(* running against the minifb window, which is an external collaborator    *)
(* whose answers (window creation, is_open, is_key_down, update result)     *)
(* are inputs chosen by the environment.                                    *)
(*                                                                          *)
(* A usize is its eight bytes, least significant first (a 64-bit target),  *)
(* so that `width * height`, `width - 1`, `height - 1` and                  *)
(* `y_clamp * width + x_clamp` wrap or panic exactly where the code does:   *)
(* with overflow checks on (the dev and test profiles) an overflow panics,  *)
(* with them off (the release profile) the result wraps modulo 2^64.        *)
(* Vec<u32> is a function on 0..len-1, so indices are the code's indices.   *)
(* The allocator is part of the environment: whether it grants the buffer   *)
(* that vec![0; n] requests is an input of Surface::new, and a refusal      *)
(* aborts the process.                                                      *)
(***************************************************************************)
EXTENDS Integers, Sequences, FiniteSets

VARIABLES
    overflow_checks, \* whether the build panics on integer overflow
    pc,          \* position of the caller: start, idle, check, callback, present, returned, aborted
    surface,     \* the Surface: [width, height, buffer]
    color,       \* the Color most recently built by Color::rgb
    colorArgs,   \* the positional arguments of that Color::rgb call
    ctorArgs,    \* the arguments of the Surface::new call that returned the surface
    calls,       \* log of put_pixel calls: <<x, y, <<a1, a2, a3>>, frame>>
    panic,       \* "none", or the panic or abort that ended the program
    window,      \* the minifb window handle held by begin_draw; NoWindow once dropped
    lastCheck,   \* what the window reported at the latest loop condition
    openReports, \* number of loop conditions at which the window reported open and Escape up
    cbCount,     \* number of draw_frame invocations
    presents,    \* number of update_with_buffer calls
    lastPresent, \* arguments of the latest update_with_buffer call
    entry,       \* buffer and length of the call log when begin_draw was called
    cbDone,      \* buffer and frame number when draw_frame last returned
    collabErr    \* failure reported by the window collaborator: none, window, present

vars == <<overflow_checks, pc, surface, color, colorArgs, ctorArgs, calls, panic, window,
          lastCheck, openReports, cbCount, presents, lastPresent, entry, cbDone, collabErr>>

surfaceVars == <<surface, ctorArgs>>
loopVars == <<window, lastCheck, openReports, cbCount, presents, lastPresent, entry,
              cbDone, collabErr>>

----------------------------------------------------------------------------
(* Bounds of the model *)

MaxDim == 2
MaxPuts == 2
MaxFrames == 2
MaxChan == 257

Dims == 0..MaxDim
Coords == 0..MaxDim
LoopPoints == {<<0, 0>>, <<MaxDim, MaxDim>>}
Chan == {0, 10, 300, 500} \cup (254..MaxChan)
PaintArgs == {<<255, 0, 0>>, <<0, 255, 0>>}

----------------------------------------------------------------------------
(* Constants of the program *)

ChannelMax == 255
RedShift == 16
GreenShift == 8
UpdateRateMicros == 16600

----------------------------------------------------------------------------
(* u32 arithmetic of Color::rgb *)

min(a, b) == IF a <= b THEN a ELSE b

RECURSIVE Pow2(_)
Pow2(n) == IF n = 0 THEN 1 ELSE 2 * Pow2(n - 1)

\* v << n on u32; every operand here is at most 255 and n at most 16,
\* so no bit is shifted out of the 32-bit word.
Shl(v, n) == v * Pow2(n)

\* a | b on naturals, bit by bit.
RECURSIVE BitOr(_, _)
BitOr(a, b) ==
    IF a = 0 THEN b
    ELSE IF b = 0 THEN a
    ELSE (IF a % 2 = 1 \/ b % 2 = 1 THEN 1 ELSE 0) + 2 * BitOr(a \div 2, b \div 2)

\* Color::rgb(r, b, g): the parameters in the order the source declares them.
rgb(r, b, g) ==
    [val |-> BitOr(BitOr(Shl(min(r, ChannelMax), RedShift),
                         Shl(min(g, ChannelMax), GreenShift)),
                   min(b, ChannelMax))]

----------------------------------------------------------------------------
(* usize arithmetic: eight bytes, index 0 the least significant *)

Limbs == 0..7

\* The usize with value n, for 0 <= n < 2^31.
usize(n) ==
    [i \in Limbs |-> CASE i = 0 -> n % 256
                      [] i = 1 -> (n \div 256) % 256
                      [] i = 2 -> (n \div 65536) % 256
                      [] i = 3 -> n \div 16777216
                      [] OTHER -> 0]

UsizeMax == [i \in Limbs |-> 255]
TwoPow32 == [i \in Limbs |-> IF i = 4 THEN 1 ELSE 0]
TwoPow40 == [i \in Limbs |-> IF i = 5 THEN 1 ELSE 0]
TwoPow63 == [i \in Limbs |-> IF i = 7 THEN 128 ELSE 0]
\* 2^61 - 1, the greatest length whose 4-byte elements fit isize::MAX bytes.
MaxVecLen == [i \in Limbs |-> IF i = 7 THEN 31 ELSE 255]

\* u < 2^15, and then its value: such operands are added and multiplied
\* directly, the results staying below 2^31.
fits15(u) == u[1] < 128 /\ \A i \in 2..7 : u[i] = 0
low15(u) == u[0] + 256 * u[1]

\* The value of a usize as a number.
RECURSIVE to_int_from(_, _)
to_int_from(u, i) == IF i > 7 THEN 0 ELSE u[i] + 256 * to_int_from(u, i + 1)
to_int(u) == IF fits15(u) THEN low15(u) ELSE to_int_from(u, 0)

\* a < b, decided at the most significant byte where they differ.
RECURSIVE less_from(_, _, _)
less_from(a, b, i) ==
    IF i < 0 THEN FALSE
    ELSE IF a[i] # b[i] THEN a[i] < b[i]
    ELSE less_from(a, b, i - 1)
usize_lt(a, b) ==
    IF fits15(a) /\ fits15(b) THEN low15(a) < low15(b) ELSE less_from(a, b, 7)

\* std::cmp::min on usize
usize_min(a, b) == IF usize_lt(b, a) THEN b ELSE a

\* a - 1: [val, overflow]; at 0 the value wraps to usize::MAX.
RECURSIVE dec_from(_, _)
dec_from(a, i) ==
    IF i > 7 THEN a
    ELSE IF a[i] > 0 THEN [a EXCEPT ![i] = a[i] - 1]
    ELSE dec_from([a EXCEPT ![i] = 255], i + 1)
usize_sub1(a) ==
    IF fits15(a) /\ low15(a) > 0
    THEN [val |-> usize(low15(a) - 1), overflow |-> FALSE]
    ELSE [val |-> dec_from(a, 0), overflow |-> a = usize(0)]

\* a + b: [val, overflow], byte by byte with carry.
RECURSIVE add_from(_, _, _, _, _)
add_from(a, b, i, carry, acc) ==
    IF i > 7 THEN [val |-> acc, overflow |-> carry > 0]
    ELSE LET s == a[i] + b[i] + carry
         IN add_from(a, b, i + 1, s \div 256, [acc EXCEPT ![i] = s % 256])
usize_add(a, b) ==
    IF fits15(a) /\ fits15(b)
    THEN [val |-> usize(low15(a) + low15(b)), overflow |-> FALSE]
    ELSE add_from(a, b, 0, 0, usize(0))

\* Column k of the schoolbook product: the sum of a[i] * b[k - i].
RECURSIVE column(_, _, _, _)
column(a, b, k, i) ==
    IF i > 7 \/ i > k THEN 0
    ELSE (IF k - i <= 7 THEN a[i] * b[k - i] ELSE 0) + column(a, b, k, i + 1)

\* a * b: [val, overflow]; the low eight bytes are the wrapped product, and
\* the product overflowed when any higher byte is not 0.
RECURSIVE mul_from(_, _, _, _, _, _)
mul_from(a, b, k, carry, acc, high) ==
    IF k > 15 THEN [val |-> acc, overflow |-> high]
    ELSE LET s == column(a, b, k, 0) + carry
             byte == s % 256
         IN IF k <= 7
            THEN mul_from(a, b, k + 1, s \div 256, [acc EXCEPT ![k] = byte], high)
            ELSE mul_from(a, b, k + 1, s \div 256, acc, high \/ byte # 0)
usize_mul(a, b) ==
    IF fits15(a) /\ fits15(b)
    THEN [val |-> usize(low15(a) * low15(b)), overflow |-> FALSE]
    ELSE mul_from(a, b, 0, 0, usize(0), FALSE)

----------------------------------------------------------------------------
(* Surface *)

\* vec![0; n] for a usize n: Layout::array::<u32>(n) fails, and the macro
\* panics with "capacity overflow", when 4 * n exceeds isize::MAX.
capacity_overflow(n) == n[7] >= 32
ZeroBuffer(n) == [i \in 0..(to_int(n) - 1) |-> 0]

NoSurface == [width |-> usize(0), height |-> usize(0), buffer |-> <<>>]

\* Surface::new(width, height): the panic or abort it ends in, if any, and the
\* surface. `granted` is the allocator's answer to the request for the buffer;
\* a buffer of no elements is not allocated, and a refused request ends in
\* handle_alloc_error, which aborts the process.
new(width, height, checks, granted) ==
    LET len == usize_mul(width, height)
    IN IF checks /\ len.overflow
       THEN [panic |-> "mul_overflow", surface |-> NoSurface]
       ELSE IF capacity_overflow(len.val)
       THEN [panic |-> "capacity_overflow", surface |-> NoSurface]
       ELSE IF len.val # usize(0) /\ ~granted
       THEN [panic |-> "alloc_failed", surface |-> NoSurface]
       ELSE [panic |-> "none",
             surface |-> [width |-> width, height |-> height,
                          buffer |-> ZeroBuffer(len.val)]]

\* Surface::size(&self)
size(self) == <<self.width, self.height>>

BufLen(buffer) == Cardinality(DOMAIN buffer)

\* self.buffer[index]: in bounds when index < buffer.len().
in_bounds(buffer, index) == usize_lt(index, usize(BufLen(buffer)))

\* Surface::put_pixel(&mut self, x, y, color): the panic it ends in, if any,
\* and the surface afterwards.
put_pixel(self, x, y, c, checks) ==
    LET w1 == usize_sub1(self.width)
        h1 == usize_sub1(self.height)
        x_clamp == usize_min(x, w1.val)
        y_clamp == usize_min(y, h1.val)
        row == usize_mul(y_clamp, self.width)
        index == usize_add(row.val, x_clamp)
    IN IF checks /\ (w1.overflow \/ h1.overflow)
       THEN [panic |-> "sub_overflow", surface |-> self]
       ELSE IF checks /\ row.overflow
       THEN [panic |-> "mul_overflow", surface |-> self]
       ELSE IF checks /\ index.overflow
       THEN [panic |-> "add_overflow", surface |-> self]
       ELSE IF in_bounds(self.buffer, index.val)
       THEN [panic |-> "none",
             surface |-> [self EXCEPT !.buffer[to_int(index.val)] = c.val]]
       ELSE [panic |-> "index_oob", surface |-> self]

\* Mutant of loop_condition: the Escape key is not consulted.
loop_condition_no_escape(open, escape) == open

\* window.is_open() && !window.is_key_down(Key::Escape)
loop_condition(open, escape) == open /\ ~escape

----------------------------------------------------------------------------
(* State machine *)

NoColor == [val |-> 0]
NoArgs == <<>>
NoWindow == [created |-> FALSE, width |-> usize(0), height |-> usize(0), rate |-> 0]
NoPresent == [buffer |-> <<>>, width |-> usize(0), height |-> usize(0), calls |-> 0,
              cb |-> 0]

Init ==
    /\ overflow_checks \in BOOLEAN
    /\ pc = "start"
    /\ surface = NoSurface
    /\ color = NoColor
    /\ colorArgs = NoArgs
    /\ ctorArgs = NoArgs
    /\ calls = <<>>
    /\ panic = "none"
    /\ window = NoWindow
    /\ lastCheck = [open |-> FALSE, escape |-> FALSE]
    /\ openReports = 0
    /\ cbCount = 0
    /\ presents = 0
    /\ lastPresent = NoPresent
    /\ entry = [buffer |-> <<>>, calls |-> 0]
    /\ cbDone = [buffer |-> <<>>, cb |-> 0]
    /\ collabErr = "none"

\* Color::rgb(a1, a2, a3) called on its own.
MakeColor(a1, a2, a3) ==
    /\ pc = "start"
    /\ colorArgs = NoArgs
    /\ color' = rgb(a1, a2, a3)
    /\ colorArgs' = <<a1, a2, a3>>
    /\ UNCHANGED <<overflow_checks, pc, calls, panic>>
    /\ UNCHANGED surfaceVars
    /\ UNCHANGED loopVars

\* let surface = Surface::new(width, height), the allocator answering `granted`.
New(width, height, granted) ==
    /\ pc = "start"
    /\ LET r == new(width, height, overflow_checks, granted)
       IN /\ surface' = r.surface
          /\ panic' = r.panic
          /\ ctorArgs' = IF r.panic = "none" THEN <<width, height>> ELSE ctorArgs
          /\ pc' = IF r.panic = "none" THEN "idle" ELSE "aborted"
    /\ UNCHANGED <<overflow_checks, color, colorArgs, calls>>
    /\ UNCHANGED loopVars

\* surface.put_pixel(x, y, Color::rgb(a[1], a[2], a[3])), called by the owner
\* of the surface or from inside the draw_frame callback; a panic inside the
\* callback unwinds out of begin_draw, which drops its window.
PutPixel(x, y, a, limit) ==
    /\ pc \in {"idle", "callback", "returned"}
    /\ Len(calls) < limit
    /\ LET c == rgb(a[1], a[2], a[3])
           r == put_pixel(surface, usize(x), usize(y), c, overflow_checks)
       IN /\ color' = c
          /\ colorArgs' = a
          /\ calls' = Append(calls, <<x, y, a, cbCount>>)
          /\ surface' = r.surface
          /\ panic' = r.panic
          /\ pc' = IF r.panic = "none" THEN pc ELSE "aborted"
          /\ window' = IF r.panic = "none" THEN window ELSE NoWindow
    /\ UNCHANGED <<overflow_checks, ctorArgs>>
    /\ UNCHANGED <<lastCheck, openReports, cbCount, presents, lastPresent, entry, cbDone,
                   collabErr>>

\* surface.begin_draw(draw_frame) up to the loop: Window::new(...) answers
\* Ok or Err (unwrap_or_else panics on Err), then limit_update_rate.
BeginDraw(created) ==
    /\ pc = "idle"
    /\ IF created
       THEN /\ window' = [created |-> TRUE, width |-> surface.width,
                          height |-> surface.height, rate |-> UpdateRateMicros]
            /\ entry' = [buffer |-> surface.buffer, calls |-> Len(calls)]
            /\ pc' = "check"
            /\ UNCHANGED <<panic, collabErr>>
       ELSE /\ collabErr' = "window"
            /\ panic' = "window_new"
            /\ pc' = "aborted"
            /\ UNCHANGED <<window, entry>>
    /\ UNCHANGED <<overflow_checks, color, colorArgs, calls>>
    /\ UNCHANGED surfaceVars
    /\ UNCHANGED <<lastCheck, openReports, cbCount, presents, lastPresent, cbDone>>

\* while window.is_open() && !window.is_key_down(Key::Escape): one evaluation
\* of the condition; when it holds, draw_frame(self) is invoked, otherwise
\* begin_draw returns and its window is dropped.
LoopCheck(open, escape) ==
    /\ pc = "check"
    /\ (open /\ ~escape) => cbCount < MaxFrames
    /\ lastCheck' = [open |-> open, escape |-> escape]
    /\ openReports' = openReports + (IF open /\ ~escape THEN 1 ELSE 0)
    /\ IF loop_condition(open, escape)
       THEN /\ cbCount' = cbCount + 1
            /\ pc' = "callback"
            /\ UNCHANGED window
       ELSE /\ pc' = "returned"
            /\ window' = NoWindow
            /\ UNCHANGED cbCount
    /\ UNCHANGED <<overflow_checks, color, colorArgs, calls, panic>>
    /\ UNCHANGED surfaceVars
    /\ UNCHANGED <<presents, lastPresent, entry, cbDone, collabErr>>

\* Mutant of CallbackReturn: the frame is not presented.
CallbackReturnSkipsPresent ==
    /\ pc = "callback"
    /\ pc' = "check"
    /\ cbDone' = [buffer |-> surface.buffer, cb |-> cbCount]
    /\ UNCHANGED <<overflow_checks, color, colorArgs, calls, panic>>
    /\ UNCHANGED surfaceVars
    /\ UNCHANGED <<window, lastCheck, openReports, cbCount, presents, lastPresent, entry,
                   collabErr>>

\* draw_frame(self) returns to the loop body.
CallbackReturn ==
    /\ pc = "callback"
    /\ pc' = "present"
    /\ cbDone' = [buffer |-> surface.buffer, cb |-> cbCount]
    /\ UNCHANGED <<overflow_checks, color, colorArgs, calls, panic>>
    /\ UNCHANGED surfaceVars
    /\ UNCHANGED <<window, lastCheck, openReports, cbCount, presents, lastPresent, entry,
                   collabErr>>

\* Mutant of Present: the Err of update_with_buffer is dropped and the loop goes on.
PresentIgnoresErr(ok) ==
    /\ pc = "present"
    /\ presents' = presents + 1
    /\ lastPresent' = [buffer |-> surface.buffer, width |-> surface.width,
                       height |-> surface.height, calls |-> Len(calls),
                       cb |-> cbCount]
    /\ pc' = "check"
    /\ collabErr' = IF ok THEN collabErr ELSE "present"
    /\ UNCHANGED <<overflow_checks, color, colorArgs, calls, panic>>
    /\ UNCHANGED surfaceVars
    /\ UNCHANGED <<window, lastCheck, openReports, cbCount, entry, cbDone>>

\* Mutant of Present: the buffer is cleared to black once it has been shown.
PresentThenClear(ok) ==
    /\ pc = "present"
    /\ presents' = presents + 1
    /\ lastPresent' = [buffer |-> surface.buffer, width |-> surface.width,
                       height |-> surface.height, calls |-> Len(calls),
                       cb |-> cbCount]
    /\ surface' = [surface EXCEPT !.buffer = ZeroBuffer(usize(BufLen(surface.buffer)))]
    /\ IF ok
       THEN /\ pc' = "check"
            /\ UNCHANGED <<panic, collabErr, window>>
       ELSE /\ collabErr' = "present"
            /\ panic' = "update_with_buffer"
            /\ pc' = "aborted"
            /\ window' = NoWindow
    /\ UNCHANGED <<overflow_checks, color, colorArgs, calls, ctorArgs>>
    /\ UNCHANGED <<lastCheck, openReports, cbCount, entry, cbDone>>

\* window.update_with_buffer(&self.buffer.as_slice(), self.width, self.height)
\* answers Ok or Err; unwrap panics on Err, and the panic unwinds out of
\* begin_draw, which drops its window.
Present(ok) ==
    /\ pc = "present"
    /\ presents' = presents + 1
    /\ lastPresent' = [buffer |-> surface.buffer, width |-> surface.width,
                       height |-> surface.height, calls |-> Len(calls),
                       cb |-> cbCount]
    /\ IF ok
       THEN /\ pc' = "check"
            /\ UNCHANGED <<panic, collabErr, window>>
       ELSE /\ collabErr' = "present"
            /\ panic' = "update_with_buffer"
            /\ pc' = "aborted"
            /\ window' = NoWindow
    /\ UNCHANGED <<overflow_checks, color, colorArgs, calls>>
    /\ UNCHANGED surfaceVars
    /\ UNCHANGED <<lastCheck, openReports, cbCount, entry, cbDone>>

\* Arguments of Surface::new: every pair up to MaxDim, sides whose product
\* does not fit a usize or a Vec, and sides whose buffer no allocator grants.
WideDims == {<<TwoPow32, TwoPow32>>, <<UsizeMax, UsizeMax>>, <<TwoPow63, usize(1)>>,
             <<MaxVecLen, usize(1)>>, <<TwoPow40, usize(1)>>}
NewArgs == {<<usize(w), usize(h)>> : w, h \in Dims} \cup WideDims

\* Answers of the allocator to the buffer of Surface::new(d[1], d[2]): it may
\* refuse any request, and the machine of the model grants none of 2^15
\* elements or more.
AllocAnswers(d) == IF fits15(usize_mul(d[1], d[2]).val) THEN BOOLEAN ELSE {FALSE}

Next ==
    \/ \E d \in NewArgs : \E granted \in AllocAnswers(d) : New(d[1], d[2], granted)
    \/ \E p \in LoopPoints, a \in PaintArgs : PutPixel(p[1], p[2], a, MaxPuts)
    \/ \E created \in BOOLEAN : BeginDraw(created)
    \/ \E open, escape \in BOOLEAN : LoopCheck(open, escape)
    \/ CallbackReturn
    \/ \E ok \in BOOLEAN : Present(ok)

Spec == Init /\ [][Next]_vars

\* Construction and pixel writes alone, on every coordinate up to MaxDim.
NextSurface ==
    \/ \E d \in NewArgs : \E granted \in AllocAnswers(d) : New(d[1], d[2], granted)
    \/ \E x, y \in Coords, a \in PaintArgs : PutPixel(x, y, a, MaxPuts)

SpecSurface == Init /\ [][NextSurface]_vars

\* Color::rgb alone, on channel values around and beyond the clamp.
NextColor == \E a1, a2, a3 \in Chan : MakeColor(a1, a2, a3)

SpecColor == Init /\ [][NextColor]_vars

\* The end-to-end scenario's surface and calls, with neighbouring inputs.
E2EScript == << <<0, 0, <<255, 0, 0>> >>,
                <<3, 3, <<0, 255, 0>> >>,
                <<10, 10, <<0, 0, 255>> >> >>
E2EDims == {<<4, 4>>, <<1, 1>>}
E2ECoords == {E2EScript[i][1] : i \in DOMAIN E2EScript}
E2EArgs == {E2EScript[i][3] : i \in DOMAIN E2EScript}

NextE2E ==
    \/ \E d \in E2EDims, granted \in BOOLEAN : New(usize(d[1]), usize(d[2]), granted)
    \/ \E x, y \in E2ECoords, a \in E2EArgs : PutPixel(x, y, a, Len(E2EScript))

SpecE2E == Init /\ [][NextE2E]_vars


----------------------------------------------------------------------------
(* Properties *)

LastCall == calls[Len(calls)]
CallsMade == [i \in 1..Len(calls) |-> <<calls[i][1], calls[i][2], calls[i][3]>>]
WindowOpenEscapeUp(check) == check.open /\ ~check.escape

\* The number W*H is the length of `buffer`: the product fits a usize and
\* the buffer has that many elements.
IsProductLength(W, H, buffer) ==
    LET p == usize_mul(W, H)
    IN ~p.overflow /\ DOMAIN buffer = 0..(to_int(p.val) - 1)

\* C1: Color::rgb(a1, a2, a3) packs min(a1,255) into bits 16-23, min(a2,255)
\* into bits 8-15 and min(a3,255) into bits 0-7.
C1_RgbPacksRedGreenBlue ==
    colorArgs # NoArgs =>
        color.val = min(colorArgs[1], 255) * 65536
                    + min(colorArgs[2], 255) * 256
                    + min(colorArgs[3], 255)

\* C2: on a surface with width W > 0 and height H > 0, put_pixel(x, y, c)
\* does not fail, sets element min(y, H-1)*W + min(x, W-1) of the buffer to
\* c's packed value and changes nothing else of the surface.
C2_PutPixelWritesClampedCell ==
    [][(/\ Len(calls') = Len(calls) + 1
        /\ surface.width # usize(0)
        /\ surface.height # usize(0)) =>
        LET call == calls'[Len(calls')]
            W == surface.width
            H == surface.height
            row == usize_mul(usize_min(usize(call[2]), usize_sub1(H).val), W)
            index == usize_add(row.val, usize_min(usize(call[1]), usize_sub1(W).val))
        IN /\ ~row.overflow
           /\ ~index.overflow
           /\ in_bounds(surface.buffer, index.val)
           /\ panic' = "none"
           /\ color' = rgb(call[3][1], call[3][2], call[3][3])
           /\ surface' = [surface EXCEPT !.buffer[to_int(index.val)] = color'.val]]_vars

\* C3: whatever surface Surface::new returned, no put_pixel call ends in a
\* panic (no out-of-bounds index, no arithmetic failure).
C3_PutPixelNeverPanics ==
    [][Len(calls') = Len(calls) + 1 => panic' = "none"]_vars

\* C7: on a 4x4 surface, after put_pixel(0,0, rgb(255,0,0)),
\* put_pixel(3,3, rgb(0,255,0)), put_pixel(10,10, rgb(0,0,255)), element 0 is
\* 0xFF0000, element 15 is 0x0000FF and the other 14 elements are 0.
C7_EndToEndRedAndBlue ==
    (ctorArgs = <<usize(4), usize(4)>> /\ CallsMade = E2EScript) =>
        surface.buffer = [i \in 0..15 |->
                            IF i = 0 THEN 16711680 ELSE IF i = 15 THEN 255 ELSE 0]

\* C8: for W > 0 and H > 0, the surface Surface::new(W, H) returns has size
\* (W, H) and a buffer of exactly W*H elements, all 0.
C8_NewIsBlack ==
    (/\ pc = "idle"
     /\ calls = <<>>
     /\ ctorArgs[1] # usize(0)
     /\ ctorArgs[2] # usize(0)) =>
        /\ size(surface) = ctorArgs
        /\ IsProductLength(ctorArgs[1], ctorArgs[2], surface.buffer)
        /\ \A i \in DOMAIN surface.buffer : surface.buffer[i] = 0

\* C9: once Surface::new(W, H) has returned, whatever put_pixel calls were
\* made inside or outside the draw loop, size() is (W, H), the buffer has W*H
\* elements, and every present handed over that many values with W and H.
C9_SizeAndLengthKept ==
    ctorArgs # NoArgs =>
        /\ size(surface) = ctorArgs
        /\ IsProductLength(ctorArgs[1], ctorArgs[2], surface.buffer)
        /\ presents > 0 =>
             /\ IsProductLength(ctorArgs[1], ctorArgs[2], lastPresent.buffer)
             /\ lastPresent.width = ctorArgs[1]
             /\ lastPresent.height = ctorArgs[2]

\* C4: the loop condition is evaluated before every frame; the callback is
\* invoked once for each check at which the window is open and Escape is up,
\* begin_draw returns at the first check where that is not so, and it returns
\* at no other point.
C4_CallbackPerOpenCheck ==
    [][/\ cbCount' = openReports'
       /\ pc = "check" =>
            IF WindowOpenEscapeUp(lastCheck')
            THEN pc' = "callback" /\ cbCount' = cbCount + 1
            ELSE pc' = "returned" /\ cbCount' = cbCount
       /\ pc # "check" => (cbCount' = cbCount /\ (pc' = "returned" => pc = "returned"))
       /\ pc' = "callback" => pc \in {"check", "callback"}]_vars

\* C4 witness: the window stayed open for two frames and begin_draw returned
\* at the third check, where Escape was down.
C4_Witness ==
    /\ pc = "returned"
    /\ cbCount = 2
    /\ lastCheck.open
    /\ lastCheck.escape

\* C5: callbacks and presents alternate, callback first: the k-th present
\* follows exactly k callback invocations and hands over the buffer as the
\* k-th callback left it.
C5_CallbackThenPresent ==
    /\ pc \in {"callback", "present"} => cbCount = presents + 1
    /\ pc \in {"start", "idle", "check", "returned"} => cbCount = presents
    /\ pc = "aborted" => (presents <= cbCount /\ cbCount <= presents + 1)
    /\ presents > 0 =>
         /\ lastPresent.cb = presents
         /\ cbDone.cb = presents => lastPresent.buffer = cbDone.buffer
         /\ cbDone.cb \in {presents, presents + 1}

\* C5 witness: the second frame has been presented with a write of its
\* callback in it.
C5_Witness ==
    /\ presents = 2
    /\ pc = "check"
    /\ Len(calls) = 1
    /\ LastCall[4] = 2
    /\ lastPresent.buffer # entry.buffer

\* C6: a failure of the window collaborator is fatal: when Window::new fails
\* no callback runs and nothing is presented; after a failed present no
\* callback runs and nothing is presented again; begin_draw does not return.
C6_CollaboratorFailureIsFatal ==
    [][/\ collabErr' # "none" => (pc' = "aborted" /\ panic' # "none")
       /\ collabErr' = "window" => (cbCount' = 0 /\ presents' = 0)
       /\ collabErr # "none" => (cbCount' = cbCount /\ presents' = presents)]_vars

\* C6 witness: the present of the second frame failed.
C6_Witness ==
    /\ collabErr = "present"
    /\ pc = "aborted"
    /\ panic = "update_with_buffer"
    /\ cbCount = 2
    /\ presents = 2

\* The surface `self` after the put_pixel calls from..to of the log.
RECURSIVE Replay(_, _, _, _, _)
Replay(self, log, from, to, checks) ==
    IF from > to THEN self
    ELSE LET call == log[from]
             c == rgb(call[3][1], call[3][2], call[3][3])
         IN Replay(put_pixel(self, usize(call[1]), usize(call[2]), c, checks).surface,
                   log, from + 1, to, checks)

\* The buffer of the surface begin_draw was entered with, after the put_pixel
\* calls logged since.
EntryReplayed ==
    Replay([surface EXCEPT !.buffer = entry.buffer], calls, entry.calls + 1, Len(calls),
           overflow_checks).buffer

\* C10: begin_draw writes nothing to the buffer (only put_pixel calls change
\* it, and it is not cleared between frames), so each present hands over the
\* buffer begin_draw was entered with, with the writes of the callbacks so
\* far applied in order.
C10_OnlyPutPixelWrites ==
    [][/\ (pc # "start" /\ Len(calls') = Len(calls)) => surface' = surface
       /\ presents' # presents => lastPresent'.buffer = EntryReplayed]_vars

\* C10 witness: the second present still shows the one write made in the
\* first frame.
C10_Witness ==
    /\ presents = 2
    /\ entry.calls = 0
    /\ Len(calls) = 1
    /\ LastCall[4] = 1
    /\ lastPresent.buffer # entry.buffer

====
